---- MODULE Spec2Model ----
(***************************************************************************)
(* A model of the AIChatHelper browser extension: the platform detector,   *)
(* the message extractor, the sidebar manager and the content script that  *)
(* wires them, running on the single-threaded event loop of one page.      *)
(*                                                                         *)
(* Strings are TLA+ strings (sequences of characters).  JavaScript null    *)
(* is the empty tuple Null and a present value x is the one-element tuple  *)
(* Some(x), so that "absent" and "empty list" stay different values.       *)
(* Time is kept relative: every timer holds the milliseconds that remain   *)
(* until it fires and timeDiff holds Date.now() - lastExtractTime, both    *)
(* advanced by the action Tick; values above the largest threshold the     *)
(* code compares them with are indistinguishable to it and are saturated.  *)
(***************************************************************************)
EXTENDS Integers, Sequences, FiniteSets, TLC

Null == <<>>
Some(x) == <<x>>
IsNull(m) == m = <<>>
Get(m) == m[1]

Min(a, b) == IF a <= b THEN a ELSE b

(***************************************************************************)
(* Bounds of the model.                                                    *)
(***************************************************************************)
\* the largest number of top-level chat nodes the host page holds at once
MaxDom == 3
\* the number of mutations the host page makes while the content script runs
MaxHostMoves == 2
\* the number of commands the user gives through the popup and the sidebar
\* in the specifications that bound them
MaxUserMoves == 2

\* the value at which the count of the calls of a burst saturates
BurstCap == 3

(***************************************************************************)
(* Time constants of the program, in milliseconds.                         *)
(***************************************************************************)
RefreshAge == 2000
DebounceDelay == 500
HighlightDelay == 3000
IntervalDelay == 5000
PreviewLength == 60
\* the granularity of the clock: time advances in steps of half a debounce
Step == DebounceDelay \div 2
\* the value at which timeDiff saturates (any value above RefreshAge)
AgeCap == RefreshAge + Step
\* a full period of the interval and the debounce delay it can start
QuietTime == IntervalDelay + DebounceDelay
QuietCap == QuietTime + Step

(***************************************************************************)
(* PlatformDetector: the configuration.  A configuration is the sequence   *)
(* of its platform definitions in the order Object.entries yields them.    *)
(***************************************************************************)
Platform(key, name, urls, userMessage, messageContent, fallback) ==
  [key |-> key, name |-> name, urls |-> urls,
   selectors |-> [userMessage |-> userMessage,
                  messageContent |-> messageContent,
                  fallbackUserMessage |-> fallback]]

getDefaultPlatformsConfig ==
  << Platform("chatgpt", "ChatGPT", <<"chat.openai.com", "chatgpt.com">>,
              "[role=\"user\"]", "div:first-child", <<>>),
     Platform("gemini", "Google Gemini", <<"gemini.google.com">>,
              "[data-role=\"user\"]", ".message-content, [role=\"article\"]", <<>>),
     Platform("claude", "Anthropic Claude", <<"claude.ai">>,
              ".user-message", ".message-text, [role=\"article\"]", <<>>),
     Platform("deepseek", "DeepSeek", <<"chat.deepseek.com">>,
              "[data-sender=\"user\"]", ".ds-message-content, .message-content", <<>>),
     Platform("doubao", "Doubao", <<"doubao.com">>,
              "[data-type=\"user\"]", ".message-body, .message-content", <<>>) >>

\* A configuration document as src/config/platforms.json may provide it: the
\* selectors carry a fallback list (messageExtractor.js line 89) and two
\* definitions have patterns that occur in the same hostname.
FetchedPlatformsConfig ==
  << Platform("deepseek", "DeepSeek", <<"chat.deepseek.com">>,
              "[data-sender=\"user\"]", ".ds-message-content, .message-content", <<>>),
     Platform("claude", "Anthropic Claude", <<"claude.ai", "ai">>,
              ".user-message", "", <<".font-user-message", "[data-is-user]">>),
     Platform("chatgpt", "ChatGPT", <<"openai.com", "chatgpt.com">>,
              "[role=\"user\"]", "div:first-child", <<"[data-author=\"user\"]">>) >>

Configs == {getDefaultPlatformsConfig, FetchedPlatformsConfig}

\* window.location.hostname of the page the content script runs in
Hostnames == {"chatgpt.com", "chat.deepseek.com", "claude.ai",
              "claude.ai.chatgpt.com", "api.openai.com", "example.org"}

(***************************************************************************)
(* String.prototype.includes, scanning the start offsets from the left.    *)
(***************************************************************************)
RECURSIVE includesFrom(_, _, _)
includesFrom(s, pattern, i) ==
  IF i + Len(pattern) - 1 > Len(s) THEN FALSE
  ELSE IF SubSeq(s, i, i + Len(pattern) - 1) = pattern THEN TRUE
  ELSE includesFrom(s, pattern, i + 1)

includes(s, pattern) == includesFrom(s, pattern, 1)

\* the inner loop of detectPlatform: does any pattern from position j on match
RECURSIVE anyUrlMatches(_, _, _)
anyUrlMatches(urls, currentUrl, j) ==
  IF j > Len(urls) THEN FALSE
  ELSE IF includes(currentUrl, urls[j]) THEN TRUE
  ELSE anyUrlMatches(urls, currentUrl, j + 1)

\* detectFrom with the return inside the loop lost: a later definition that
\* matches overwrites an earlier one
RECURSIVE detectFrom_lastMatch(_, _, _)
detectFrom_lastMatch(platforms, currentUrl, i) ==
  IF i > Len(platforms) THEN Null
  ELSE LET later == detectFrom_lastMatch(platforms, currentUrl, i + 1)
       IN IF ~IsNull(later) THEN later
          ELSE IF anyUrlMatches(platforms[i].urls, currentUrl, 1)
               THEN Some(platforms[i]) ELSE Null

\* the outer loop of detectPlatform: the first definition from position i on
\* that has a matching pattern, or Null
RECURSIVE detectFrom(_, _, _)
detectFrom(platforms, currentUrl, i) ==
  IF i > Len(platforms) THEN Null
  ELSE IF anyUrlMatches(platforms[i].urls, currentUrl, 1) THEN Some(platforms[i])
  ELSE detectFrom(platforms, currentUrl, i + 1)

\* the value detectPlatform returns for a configuration (Null or Some) and a
\* hostname
detectPlatformResult(config, currentUrl) ==
  IF IsNull(config) THEN Null ELSE detectFrom(Get(config), currentUrl, 1)

(***************************************************************************)
(* PlatformDetector.init.  The three candidate locations are fetched in    *)
(* order; the outcome of a fetch is a response that is ok, a response that *)
(* is not ok, or a thrown error.  body is what response.json() yields for  *)
(* the response the loop ends with: Some(config), or Null when the body    *)
(* does not parse.                                                         *)
(***************************************************************************)
possiblePaths ==
  <<"src/config/platforms.json", "/src/config/platforms.json",
    "chrome-extension://id/src/config/platforms.json">>

FetchOutcomes == {"ok", "notok", "throw"}

\* the for loop of init from candidate i on: response is the last response a
\* fetch returned (Null when none did), log the candidates fetched so far
RECURSIVE fetchLoop(_, _, _, _)
fetchLoop(outcomes, i, response, log) ==
  IF i > Len(possiblePaths) THEN [response |-> response, log |-> log]
  ELSE IF outcomes[i] = "throw"
       THEN fetchLoop(outcomes, i + 1, response, Append(log, possiblePaths[i]))
       ELSE IF outcomes[i] = "ok"
            THEN [response |-> Some("ok"), log |-> Append(log, possiblePaths[i])]
            ELSE fetchLoop(outcomes, i + 1, Some("notok"),
                           Append(log, possiblePaths[i]))

\* what response.json() yields at each candidate location: Some(config), or
\* Null when the body does not parse
Bodies == {Null} \cup {Some(c) : c \in Configs}

\* what the candidate locations can answer: an outcome each, and a body
\* for each response that is ok
Served ==
  {sv \in [outcomes : [1..Len(possiblePaths) -> FetchOutcomes],
           bodies : [1..Len(possiblePaths) -> Bodies]] :
     \A i \in 1..Len(possiblePaths) :
       sv.outcomes[i] # "ok" => sv.bodies[i] = Null}

\* the body of the response the for loop ends with: the last one fetched
responseBody(outcomes, bodies) ==
  LET loop == fetchLoop(outcomes, 1, Null, <<>>)
  IN IF loop.log = <<>> THEN Null ELSE bodies[Len(loop.log)]

\* the configuration init installs and the candidates it fetched
initResult(outcomes, body) ==
  LET loop == fetchLoop(outcomes, 1, Null, <<>>)
  IN [config |-> IF IsNull(loop.response) \/ Get(loop.response) # "ok"
                 THEN getDefaultPlatformsConfig
                 ELSE IF IsNull(body) THEN getDefaultPlatformsConfig
                 ELSE Get(body),
      log |-> loop.log]

(***************************************************************************)
(* The chat DOM of the host page.  The page owns a pool of nodes; the      *)
(* top-level chat nodes currently attached are the sequence dom, in        *)
(* document order.  A node has the set of selectors it matches and its     *)
(* child nodes in order (each with the selectors it matches and its text); *)
(* a node reference is <<id, 0>> for the node and <<id, k>> for its k-th   *)
(* child.                                                                  *)
(***************************************************************************)
Child(matches, text) == [matches |-> matches, text |-> text]
Node(matches, children) == [matches |-> matches, children |-> children]

LongText == "Please explain how the debounce timer of the sidebar refresh works"

NodePool ==
  << \* 1..5: nodes of a ChatGPT page
     Node({"[role=\"user\"]"}, <<Child({"div:first-child"}, "Hello world")>>),
     Node({"[role=\"user\"]"}, <<Child({"div:first-child"}, "  "), Child({}, "tail")>>),
     Node({"[role=\"user\"]"}, <<Child({}, " How  are ~you~?\n")>>),
     Node({"[data-author=\"user\"]"}, <<Child({"div:first-child"}, LongText)>>),
     Node({"[role=\"assistant\"]"}, <<Child({"div:first-child"}, "An answer")>>),
     \* 6..8: nodes of a Claude page
     Node({".user-message"}, <<Child({".message-text, [role=\"article\"]"}, "Hi <b>Claude</b>")>>),
     Node({".font-user-message"}, <<Child({}, "Second & last")>>),
     Node({".user-message"}, <<>>),
     \* 9..12: nodes of a DeepSeek page
     Node({".ds-message"}, <<Child({".fbb737a4"}, "Question one")>>),
     Node({".ds-message"}, <<Child({".ds-markdown"}, "Answer one")>>),
     Node({".ds-message"}, <<Child({".fbb737a4"}, " ")>>),
     Node({".ds-message"}, <<Child({".fbb737a4"}, "Part A"), Child({".fbb737a4"}, "Part B")>>),
     \* 13: a node of a page that is no chat
     Node({}, <<Child({}, "Lorem ipsum")>>) >>

\* the nodes the page of a hostname can attach
PagePool(host) ==
  IF host = "chatgpt.com" THEN {1, 2, 3, 4, 5}
  ELSE IF host = "claude.ai" THEN {6, 7, 8}
  ELSE IF host = "chat.deepseek.com" THEN {9, 10, 11, 12}
  ELSE IF host = "claude.ai.chatgpt.com" THEN {1, 2, 6, 7}
  ELSE IF host = "api.openai.com" THEN {6, 8}
  ELSE {13}

RECURSIVE ChildRefs(_, _)
ChildRefs(id, k) ==
  IF k > Len(NodePool[id].children) THEN <<>>
  ELSE <<<<id, k>>>> \o ChildRefs(id, k + 1)

\* every node of the document, in document order
RECURSIVE DocOrder(_)
DocOrder(d) ==
  IF d = <<>> THEN <<>>
  ELSE <<<<Head(d), 0>>>> \o ChildRefs(Head(d), 1) \o DocOrder(Tail(d))

Matches(ref, selector) ==
  IF ref[2] = 0 THEN selector \in NodePool[ref[1]].matches
  ELSE selector \in NodePool[ref[1]].children[ref[2]].matches

RECURSIVE ConcatText(_, _)
ConcatText(children, k) ==
  IF k > Len(children) THEN ""
  ELSE children[k].text \o ConcatText(children, k + 1)

\* Node.textContent
textContent(ref) ==
  IF ref[2] = 0 THEN ConcatText(NodePool[ref[1]].children, 1)
  ELSE NodePool[ref[1]].children[ref[2]].text

\* document.querySelectorAll(selector)
querySelectorAll(d, selector) ==
  SelectSeq(DocOrder(d), LAMBDA r : Matches(r, selector))

\* document.querySelectorAll(ancestor + ' ' + descendant)
querySelectorAllDescendant(d, ancestor, descendant) ==
  SelectSeq(DocOrder(d), LAMBDA r : /\ r[2] > 0
                                    /\ Matches(<<r[1], 0>>, ancestor)
                                    /\ Matches(r, descendant))

\* element.querySelector(selector): the first descendant that matches
querySelector(ref, selector) ==
  LET inside == IF ref[2] = 0 THEN ChildRefs(ref[1], 1) ELSE <<>>
      hits == SelectSeq(inside, LAMBDA r : Matches(r, selector))
  IN IF hits = <<>> THEN Null ELSE Some(Head(hits))

(***************************************************************************)
(* String helpers of the extractor.                                        *)
(***************************************************************************)
IsSpace(c) == c \in {" ", "\n", "\t"}

\* The backtick U+0060, which a TLA+ string literal cannot hold: the texts of
\* the model write it as a tilde, and no text uses the tilde for itself.
Backtick == "~"

RECURSIVE trimStart(_)
trimStart(s) ==
  IF Len(s) > 0 /\ IsSpace(SubSeq(s, 1, 1)) THEN trimStart(SubSeq(s, 2, Len(s)))
  ELSE s

RECURSIVE trimEnd(_)
trimEnd(s) ==
  IF Len(s) > 0 /\ IsSpace(SubSeq(s, Len(s), Len(s)))
  THEN trimEnd(SubSeq(s, 1, Len(s) - 1))
  ELSE s

\* String.prototype.trim
trim(s) == trimEnd(trimStart(s))

\* text.replace(/\s+/g, ' ') on the characters lo..hi of s: a whitespace
\* character that starts a run becomes one space, one that continues a run
\* is dropped with the run already replaced
RECURSIVE collapseSpace(_, _, _)
collapseSpace(s, lo, hi) ==
  IF lo > hi THEN ""
  ELSE IF lo = hi
       THEN LET c == SubSeq(s, lo, lo)
            IN IF ~IsSpace(c) THEN c
               ELSE IF lo > 1 /\ IsSpace(SubSeq(s, lo - 1, lo - 1)) THEN ""
               ELSE " "
       ELSE LET mid == (lo + hi) \div 2
            IN collapseSpace(s, lo, mid) \o collapseSpace(s, mid + 1, hi)

\* text.replace(/[`]/g, '') on the characters lo..hi of s
RECURSIVE stripBackticks(_, _, _)
stripBackticks(s, lo, hi) ==
  IF lo > hi THEN ""
  ELSE IF lo = hi
       THEN LET c == SubSeq(s, lo, lo)
            IN IF c = Backtick THEN "" ELSE c
       ELSE LET mid == (lo + hi) \div 2
            IN stripBackticks(s, lo, mid) \o stripBackticks(s, mid + 1, hi)

\* getPreview without the replace that removes the backticks
getPreview_keepBackticks(text, length) ==
  LET collapsed == collapseSpace(text, 1, Len(text))
      normalized == trim(collapsed)
  IN IF Len(normalized) <= length THEN normalized
     ELSE SubSeq(normalized, 1, length) \o "..."

getPreview(text, length) ==
  LET collapsed == collapseSpace(text, 1, Len(text))
      normalized == trim(stripBackticks(collapsed, 1, Len(collapsed)))
  IN IF Len(normalized) <= length THEN normalized
     ELSE SubSeq(normalized, 1, length) \o "..."

(***************************************************************************)
(* MessageExtractor.                                                       *)
(***************************************************************************)
\* findElements for an array of selectors: the node list of the first
\* selector that matches at least one node, else null
RECURSIVE findElementsArray(_, _, _)
findElementsArray(d, selectors, i) ==
  IF i > Len(selectors) THEN Null
  ELSE LET elements == querySelectorAll(d, selectors[i])
       IN IF Len(elements) > 0 THEN Some(elements)
          ELSE findElementsArray(d, selectors, i + 1)

\* findElements for one selector string: its node list, empty or not
findElementsString(d, selector) == Some(querySelectorAll(d, selector))

extractText(d, element, contentSelector) ==
  LET found == findElementsString(d, contentSelector)
      child == querySelector(element, contentSelector)
      textElement ==
        IF contentSelector # "" /\ ~IsNull(found) /\ Len(Get(found)) > 0
           /\ ~IsNull(child)
        THEN Get(child) ELSE element
  IN trim(textContent(textElement))

MessageRecord(index, userText, userElement) ==
  [index |-> index, userText |-> userText, userElement |-> userElement,
   preview |-> getPreview(userText, PreviewLength)]

\* genericRecords with unshift in place of push: the records come out in
\* reverse document order
RECURSIVE genericRecords_unshift(_, _, _, _)
genericRecords_unshift(d, platform, userElements, i) ==
  IF i > Len(userElements) THEN <<>>
  ELSE LET userText == extractText(d, userElements[i],
                                   platform.selectors.messageContent)
       IN genericRecords_unshift(d, platform, userElements, i + 1)
          \o (IF Len(userText) > 0
              THEN <<[index |-> i - 1, userText |-> userText,
                      userElement |-> userElements[i],
                      preview |-> getPreview(userText, PreviewLength)]>>
              ELSE <<>>)

\* the forEach of extractMessages from position i on: a record for every
\* element whose text is not empty, carrying the forEach index
RECURSIVE genericRecords(_, _, _, _)
genericRecords(d, platform, userElements, i) ==
  IF i > Len(userElements) THEN <<>>
  ELSE LET userText == extractText(d, userElements[i],
                                   platform.selectors.messageContent)
       IN (IF Len(userText) > 0
           THEN <<MessageRecord(i - 1, userText, userElements[i])>>
           ELSE <<>>)
          \o genericRecords(d, platform, userElements, i + 1)

\* the forEach of extractMessagesForDeepSeek from position i on, pushing onto
\* the records collected so far
RECURSIVE deepSeekRecords(_, _, _)
deepSeekRecords(messageElements, i, acc) ==
  IF i > Len(messageElements) THEN acc
  ELSE LET element == messageElements[i]
           userContent == querySelector(element, ".fbb737a4")
           userText == IF IsNull(userContent) THEN ""
                       ELSE trim(textContent(Get(userContent)))
       IN deepSeekRecords(messageElements, i + 1,
            IF ~IsNull(userContent) /\ Len(userText) > 0
            THEN Append(acc, MessageRecord(Len(acc), userText, element))
            ELSE acc)

\* the records extractMessages builds on the generic path, given the node
\* list findElements returned
extractGeneric(d, platform, userElements) ==
  genericRecords(d, platform, userElements, 1)

extractMessagesForDeepSeekResult(d) ==
  deepSeekRecords(querySelectorAll(d, ".ds-message"), 1, <<>>)

\* the selectors extractMessages hands to findElements
userSelectors(platform) ==
  <<platform.selectors.userMessage>> \o platform.selectors.fallbackUserMessage

\* the count shouldRefresh compares with the cached record count
currentCount(d, platform) ==
  IF platform.key = "deepseek"
  THEN Len(querySelectorAllDescendant(d, ".ds-message", ".fbb737a4"))
  ELSE LET found == findElementsString(d, platform.selectors.userMessage)
       IN IF IsNull(found) THEN 0 ELSE Len(Get(found))

\* shouldRefreshResult with >= in place of > in the age test
shouldRefreshResult_ageInclusive(d, platformMaybe, msgs, diff) ==
  IF IsNull(platformMaybe) THEN FALSE
  ELSE diff >= RefreshAge \/ currentCount(d, Get(platformMaybe)) # Len(msgs)

shouldRefreshResult(d, platformMaybe, msgs, diff) ==
  IF IsNull(platformMaybe) THEN FALSE
  ELSE diff > RefreshAge \/ currentCount(d, Get(platformMaybe)) # Len(msgs)

(***************************************************************************)
(* SidebarManager helpers.                                                 *)
(***************************************************************************)
\* escapeHtml on the characters lo..hi of text: the five reserved
\* characters become entities, every other character is kept
\* escapeHtml with the apostrophe missing from the map and the pattern
RECURSIVE escapeFrom_noApostrophe(_, _, _)
escapeFrom_noApostrophe(text, lo, hi) ==
  IF lo > hi THEN ""
  ELSE IF lo = hi
       THEN LET m == SubSeq(text, lo, lo)
            IN IF m = "&" THEN "&amp;"
               ELSE IF m = "<" THEN "&lt;"
               ELSE IF m = ">" THEN "&gt;"
               ELSE IF m = "\"" THEN "&quot;"
               ELSE m
       ELSE LET mid == (lo + hi) \div 2
            IN escapeFrom_noApostrophe(text, lo, mid)
                 \o escapeFrom_noApostrophe(text, mid + 1, hi)

RECURSIVE escapeFrom(_, _, _)
escapeFrom(text, lo, hi) ==
  IF lo > hi THEN ""
  ELSE IF lo = hi
       THEN LET m == SubSeq(text, lo, lo)
            IN IF m = "&" THEN "&amp;"
               ELSE IF m = "<" THEN "&lt;"
               ELSE IF m = ">" THEN "&gt;"
               ELSE IF m = "\"" THEN "&quot;"
               ELSE IF m = "'" THEN "&#039;"
               ELSE m
       ELSE LET mid == (lo + hi) \div 2
            IN escapeFrom(text, lo, mid) \o escapeFrom(text, mid + 1, hi)

escapeHtml_noApostrophe(text) == escapeFrom_noApostrophe(text, 1, Len(text))

escapeHtml(text) == escapeFrom(text, 1, Len(text))

\* getMessageByIndex with at(index) in place of [index]: a negative index
\* counts from the end of the list
getMessageByIndex_at(msgs, index) ==
  IF IsNull(index) THEN Null
  ELSE IF Get(index) >= 0 /\ Get(index) < Len(msgs)
       THEN Some(msgs[Get(index) + 1])
       ELSE IF Get(index) < 0 /\ Len(msgs) + Get(index) >= 0
            THEN Some(msgs[Len(msgs) + Get(index) + 1]) ELSE Null

\* this.messages[index] || null.  An index is Some(integer), or Null for NaN.
getMessageByIndex(msgs, index) ==
  IF IsNull(index) THEN Null
  ELSE IF Get(index) >= 0 /\ Get(index) < Len(msgs)
       THEN Some(msgs[Get(index) + 1]) ELSE Null

\* a command of the user is counted, up to MaxUserMoves
ByUser(w) == [w EXCEPT !.userMoves = Min(@ + 1, MaxUserMoves)]

\* currentPlatform?.name || 'Unknown Platform'
getPlatformName(platformMaybe) ==
  IF IsNull(platformMaybe) THEN "Unknown Platform" ELSE Get(platformMaybe).name

\* the element createSidebar builds: not collapsed, the toggle icon showing
\* the collapse glyph (written "-"), the list showing the loading
\* placeholder, one click listener on the toggle button and one on the list
NewSidebar ==
  [collapsed |-> FALSE, toggleIcon |-> "-", placeholder |-> "loading",
   rows |-> <<>>, active |-> Null, platformText |-> "",
   toggleListeners |-> 1, listListeners |-> 1, rowInView |-> Null]

\* a row of the template of updateSidebar
Row(msg, idx) ==
  [dataIndex |-> idx, number |-> idx + 1,
   title |-> escapeHtml(msg.userText), text |-> escapeHtml(msg.preview)]

(***************************************************************************)
(* State.                                                                  *)
(***************************************************************************)
VARIABLES
  hostname,         \* window.location.hostname
  platformsConfig,  \* PlatformDetector.platformsConfig: Null or Some(config)
  currentPlatform,  \* PlatformDetector.currentPlatform: Null or Some(definition)
  fetched,          \* the candidate locations the last init fetched
  served,           \* what each candidate location answers the last init:
                    \* Null, or Some([outcomes, bodies])
  input,            \* the string a caller passes to escapeHtml and getPreview
  dom,              \* the attached chat nodes of the host page, in order
  highlighted,      \* the chat nodes that carry the class aichathelper-highlighted
  scrolledTo,       \* the chat node last scrolled into view: Null or Some(ref)
  messages,         \* MessageExtractor.messages
  timeDiff,         \* Date.now() - MessageExtractor.lastExtractTime, saturated
  sidebarElement,   \* SidebarManager.sidebarElement: Null or Some(element)
  bodySidebars,     \* the number of sidebar elements attached to document.body
  isVisible,        \* SidebarManager.isVisible
  highlightedElement, \* SidebarManager.highlightedElement: Null or Some(ref)
  debounceTimer,    \* SidebarManager.debounceTimer: Null or Some(timer id)
  timeouts,         \* the pending setTimeout callbacks, in creation order
  interval,         \* the setInterval of the content script: Null or Some(ms left)
  stored,           \* chrome.storage.local sidebarVisible: Null or Some(boolean)
  storageRead,      \* the pending storage.get: Null, or Some(the flag it saw
                    \* when it was issued)
  pc,               \* the content script: "load", "initialized", "running",
                    \* "unsupported" or "unloaded"
  observing,        \* the MutationObserver is connected
  listening,        \* the runtime.onMessage listener is registered
  sinceRefresh,     \* history: time since the last refresh() call, saturated
  burstCalls,       \* history: the refresh() calls of the current burst, capped
  burstCycles,      \* history: extract+render cycles since the burst began
  cycleAge,         \* history: sinceRefresh when the last cycle ran
  sinceScroll,      \* history: time since the last successful scrollToMessage
  lastScroll,       \* history: the element of the last successful scrollToMessage
  hostMoves,        \* history: the mutations the host page made under the script
  quietFor,         \* history: time since the last of the MaxHostMoves
                    \* mutations of the host page, saturated
  userMoves,        \* history: the commands the user gave, saturated
  ret               \* the operation that ran last and the value it returned

fixedVars == <<hostname, platformsConfig, fetched, served, input>>
vars == <<hostname, platformsConfig, currentPlatform, fetched, served, input,
          dom,
          highlighted,
          scrolledTo, messages, timeDiff, sidebarElement, bodySidebars,
          isVisible, highlightedElement, debounceTimer, timeouts, interval,
          stored, storageRead, pc, observing, listening, sinceRefresh,
          burstCalls, burstCycles, cycleAge, sinceScroll, lastScroll, hostMoves,
          quietFor, userMoves, ret>>

Ret(op, value) == [op |-> op, value |-> value]

\* The state every operation works on, as one record.  mutated tells that
\* the running task changed the child list of a node below document.body:
\* the MutationObserver callback then runs when the task ends.
World ==
  [currentPlatform |-> currentPlatform, dom |-> dom, highlighted |-> highlighted,
   scrolledTo |-> scrolledTo, messages |-> messages, timeDiff |-> timeDiff,
   sidebarElement |-> sidebarElement, bodySidebars |-> bodySidebars,
   isVisible |-> isVisible, highlightedElement |-> highlightedElement,
   debounceTimer |-> debounceTimer, timeouts |-> timeouts,
   interval |-> interval, stored |-> stored, storageRead |-> storageRead,
   pc |-> pc, observing |-> observing, listening |-> listening,
   sinceRefresh |-> sinceRefresh, burstCalls |-> burstCalls,
   burstCycles |-> burstCycles,
   cycleAge |-> cycleAge, sinceScroll |-> sinceScroll,
   lastScroll |-> lastScroll, hostMoves |-> hostMoves,
   quietFor |-> quietFor, userMoves |-> userMoves, mutated |-> FALSE]

Becomes(w) ==
  /\ currentPlatform' = w.currentPlatform
  /\ dom' = w.dom
  /\ highlighted' = w.highlighted
  /\ scrolledTo' = w.scrolledTo
  /\ messages' = w.messages
  /\ timeDiff' = w.timeDiff
  /\ sidebarElement' = w.sidebarElement
  /\ bodySidebars' = w.bodySidebars
  /\ isVisible' = w.isVisible
  /\ highlightedElement' = w.highlightedElement
  /\ debounceTimer' = w.debounceTimer
  /\ timeouts' = w.timeouts
  /\ interval' = w.interval
  /\ stored' = w.stored
  /\ storageRead' = w.storageRead
  /\ pc' = w.pc
  /\ observing' = w.observing
  /\ listening' = w.listening
  /\ sinceRefresh' = w.sinceRefresh
  /\ burstCalls' = w.burstCalls
  /\ burstCycles' = w.burstCycles
  /\ cycleAge' = w.cycleAge
  /\ sinceScroll' = w.sinceScroll
  /\ lastScroll' = w.lastScroll
  /\ hostMoves' = w.hostMoves
  /\ quietFor' = w.quietFor
  /\ userMoves' = w.userMoves

(***************************************************************************)
(* Timers.  A pending timeout is [id, kind, remaining]; kind names the     *)
(* callback ("debounce" or "highlight").  setTimeout returns an id that no *)
(* pending timeout has and that debounceTimer does not hold.               *)
(***************************************************************************)
TimeoutIds(w) ==
  {w.timeouts[i].id : i \in 1..Len(w.timeouts)}
    \cup (IF IsNull(w.debounceTimer) THEN {} ELSE {Get(w.debounceTimer)})

FreshId(w) == CHOOSE id \in 1..(Cardinality(TimeoutIds(w)) + 1) : id \notin TimeoutIds(w)

setTimeout(w, kind, delay) ==
  [w EXCEPT !.timeouts = Append(@, [id |-> FreshId(w), kind |-> kind,
                                    remaining |-> delay])]

clearTimeout(w, idMaybe) ==
  IF IsNull(idMaybe) THEN w
  ELSE [w EXCEPT !.timeouts = SelectSeq(@, LAMBDA t : t.id # Get(idMaybe))]

(***************************************************************************)
(* Operations of MessageExtractor and SidebarManager on a world.           *)
(***************************************************************************)
\* the state extractMessages leaves in the extractor and the list it returns
extractMessagesResult(d, platformMaybe, msgs, diff) ==
  IF IsNull(platformMaybe)
  THEN [messages |-> msgs, timeDiff |-> diff, returned |-> <<>>]
  ELSE LET platform == Get(platformMaybe)
       IN IF platform.key = "deepseek"
          THEN LET found == extractMessagesForDeepSeekResult(d)
               IN [messages |-> found, timeDiff |-> 0, returned |-> found]
          ELSE LET userElements == findElementsArray(d, userSelectors(platform), 1)
               IN IF IsNull(userElements) \/ Len(Get(userElements)) = 0
                  THEN [messages |-> msgs, timeDiff |-> diff, returned |-> <<>>]
                  ELSE LET found == extractGeneric(d, platform, Get(userElements))
                       IN [messages |-> found, timeDiff |-> 0, returned |-> found]

doExtractMessages(w) ==
  LET r == extractMessagesResult(w.dom, w.currentPlatform, w.messages, w.timeDiff)
  IN [w EXCEPT !.messages = r.messages, !.timeDiff = r.timeDiff]

\* attachEventListeners: one more click listener on the toggle button and on
\* the message list of the element
attachEventListeners(w) ==
  IF IsNull(w.sidebarElement) THEN w
  ELSE [w EXCEPT !.sidebarElement =
          Some([Get(@) EXCEPT !.toggleListeners = @ + 1, !.listListeners = @ + 1])]

\* createSidebar without the guard of its first line: every call builds,
\* appends and wires an element
doCreateSidebar_noGuard(w) ==
  attachEventListeners(
    [w EXCEPT !.sidebarElement =
                Some([NewSidebar EXCEPT !.toggleListeners = 0,
                                        !.listListeners = 0]),
              !.bodySidebars = @ + 1,
              !.mutated = TRUE])

doCreateSidebar(w) ==
  IF ~IsNull(w.sidebarElement) THEN w
  ELSE attachEventListeners(
         [w EXCEPT !.sidebarElement =
                     Some([NewSidebar EXCEPT !.toggleListeners = 0,
                                             !.listListeners = 0]),
                   !.bodySidebars = @ + 1,
                   !.mutated = TRUE])

doUpdateSidebar(w) ==
  LET w1 == IF IsNull(w.sidebarElement) THEN doCreateSidebar(w) ELSE w
      el == Get(w1.sidebarElement)
      named == [el EXCEPT !.platformText = getPlatformName(w1.currentPlatform)]
  IN IF Len(w1.messages) = 0
     THEN [w1 EXCEPT !.sidebarElement =
                       Some([named EXCEPT !.placeholder = "empty", !.rows = <<>>,
                                          !.active = Null]),
                     !.mutated = TRUE]
     ELSE [w1 EXCEPT !.sidebarElement =
                       Some([named EXCEPT
                               !.placeholder = "",
                               !.rows = [p \in 1..Len(w1.messages) |->
                                           Row(w1.messages[p], p - 1)],
                               !.active = Null]),
                     !.mutated = TRUE]

\* updateActiveItem: the row whose data-index is the index becomes the only
\* active row and is scrolled into view, if there is such a row
updateActiveItem(w, index) ==
  IF IsNull(w.sidebarElement) THEN w
  ELSE LET el == Get(w.sidebarElement)
           hit == \E p \in 1..Len(el.rows) : el.rows[p].dataIndex = index
       IN [w EXCEPT !.sidebarElement =
             Some([el EXCEPT !.active = IF hit THEN Some(index) ELSE Null,
                             !.rowInView = IF hit THEN Some(index) ELSE @])]

\* scrollToMessage without the removal of the earlier highlight
doScrollToMessage_keepOld(w, index) ==
  LET message == getMessageByIndex(w.messages, index)
  IN IF IsNull(message) THEN w
     ELSE LET target == Get(message).userElement
              w1 == [w EXCEPT !.highlighted = @ \cup {target},
                              !.scrolledTo = Some(target),
                              !.highlightedElement = Some(target),
                              !.sinceScroll = 0,
                              !.lastScroll = Some(target)]
          IN setTimeout(updateActiveItem(w1, Get(index)), "highlight",
                        HighlightDelay)

doScrollToMessage(w, index) ==
  LET message == getMessageByIndex(w.messages, index)
  IN IF IsNull(message) THEN w
     ELSE LET target == Get(message).userElement
              cleared == IF IsNull(w.highlightedElement) THEN w.highlighted
                         ELSE w.highlighted \ {Get(w.highlightedElement)}
              w1 == [w EXCEPT !.highlighted = cleared \cup {target},
                              !.scrolledTo = Some(target),
                              !.highlightedElement = Some(target),
                              !.sinceScroll = 0,
                              !.lastScroll = Some(target)]
          IN setTimeout(updateActiveItem(w1, Get(index)), "highlight",
                        HighlightDelay)

\* the callback of the timeout scrollToMessage sets
highlightCallback(w) ==
  IF IsNull(w.highlightedElement) THEN w
  ELSE [w EXCEPT !.highlighted = @ \ {Get(w.highlightedElement)},
                 !.highlightedElement = Null]

doToggleSidebar(w) ==
  IF IsNull(w.sidebarElement) THEN w
  ELSE LET visible == ~w.isVisible
       IN [w EXCEPT !.isVisible = visible,
                    !.sidebarElement =
                      Some([Get(@) EXCEPT !.collapsed = ~visible,
                                          !.toggleIcon = IF visible THEN "-" ELSE "+"]),
                    !.mutated = TRUE,
                    !.stored = Some(visible)]

doShow(w) ==
  LET w1 == IF IsNull(w.sidebarElement) THEN doCreateSidebar(w) ELSE w
  IN [w1 EXCEPT !.isVisible = TRUE,
                !.sidebarElement = Some([Get(@) EXCEPT !.collapsed = FALSE])]

doHide(w) ==
  IF IsNull(w.sidebarElement) THEN w
  ELSE [w EXCEPT !.isVisible = FALSE,
                 !.sidebarElement = Some([Get(@) EXCEPT !.collapsed = TRUE])]

DebouncePending(w) ==
  \E i \in 1..Len(w.timeouts) : w.timeouts[i].kind = "debounce"

\* refresh with the clearTimeout lost: the timeout set before stays pending
doRefresh_noClear(w) ==
  LET w2 == setTimeout(w, "debounce", DebounceDelay)
  IN [w2 EXCEPT !.debounceTimer = Some(FreshId(w)),
                !.sinceRefresh = 0,
                !.burstCalls = IF DebouncePending(w) THEN Min(@ + 1, BurstCap) ELSE 1,
                !.burstCycles = IF DebouncePending(w) THEN @ ELSE 0]

\* A burst is a run of refresh() calls each made while the timeout of the one
\* before is pending; the history fields count its calls and its cycles.
doRefresh(w) ==
  LET w1 == clearTimeout(w, w.debounceTimer)
      w2 == setTimeout(w1, "debounce", DebounceDelay)
  IN [w2 EXCEPT !.debounceTimer = Some(FreshId(w1)),
                !.sinceRefresh = 0,
                !.burstCalls = IF DebouncePending(w) THEN Min(@ + 1, BurstCap) ELSE 1,
                !.burstCycles = IF DebouncePending(w) THEN @ ELSE 0]

\* the callback without the call of updateSidebar
debounceCallback_noRender(w) ==
  LET w1 == doExtractMessages(w)
  IN [w1 EXCEPT !.cycleAge = w.sinceRefresh,
                !.burstCycles = Min(@ + 1, 2)]

\* the callback of the timeout refresh sets
debounceCallback(w) ==
  LET w1 == doUpdateSidebar(doExtractMessages(w))
  IN [w1 EXCEPT !.cycleAge = w.sinceRefresh,
                !.burstCycles = Min(@ + 1, 2)]

doDestroy(w) ==
  LET w1 == IF IsNull(w.sidebarElement) THEN w
            ELSE [w EXCEPT !.bodySidebars = @ - 1, !.sidebarElement = Null,
                           !.mutated = TRUE]
  IN clearTimeout(w1, w1.debounceTimer)

\* the MutationObserver callback of the content script
observerCallback(w) ==
  IF shouldRefreshResult(w.dom, w.currentPlatform, w.messages, w.timeDiff)
  THEN doRefresh(w) ELSE w

\* the end of a task: the observer callback runs if the task changed a child
\* list and the observer is connected
EndTask(w) ==
  LET w1 == [w EXCEPT !.mutated = FALSE]
  IN IF w.mutated /\ w.observing THEN observerCallback(w1) ELSE w1

(***************************************************************************)
(* Operations of PlatformDetector and MessageExtractor, called directly.   *)
(***************************************************************************)
init ==
  \E sv \in Served :
    LET r == initResult(sv.outcomes, responseBody(sv.outcomes, sv.bodies))
    IN /\ platformsConfig' = Some(r.config)
       /\ fetched' = r.log
       /\ served' = Some(sv)
       /\ ret' = Ret("init", Null)
       /\ Becomes(World)
       /\ UNCHANGED <<hostname, input>>

detectPlatform ==
  LET found == detectPlatformResult(platformsConfig, hostname)
  IN /\ Becomes([World EXCEPT !.currentPlatform = IF IsNull(found) THEN @ ELSE found])
     /\ ret' = Ret("detectPlatform", found)
     /\ UNCHANGED fixedVars

extractMessages ==
  /\ Becomes(doExtractMessages(World))
  /\ ret' = Ret("extractMessages",
                extractMessagesResult(dom, currentPlatform, messages, timeDiff).returned)
  /\ UNCHANGED fixedVars

shouldRefresh ==
  /\ ret' = Ret("shouldRefresh",
                shouldRefreshResult(dom, currentPlatform, messages, timeDiff))
  /\ Becomes(World)
  /\ UNCHANGED fixedVars

(***************************************************************************)
(* The environment: the host page attaches and detaches chat nodes, and    *)
(* time passes.                                                            *)
(***************************************************************************)
InsertAt(d, pos, n) == SubSeq(d, 1, pos - 1) \o <<n>> \o SubSeq(d, pos, Len(d))
RemoveAt(d, pos) == SubSeq(d, 1, pos - 1) \o SubSeq(d, pos + 1, Len(d))
Attached(d) == {d[i] : i \in 1..Len(d)}

HostInsert ==
  /\ Len(dom) < MaxDom
  /\ \E n \in PagePool(hostname) \ Attached(dom), pos \in 1..(Len(dom) + 1) :
       Becomes(EndTask([World EXCEPT !.dom = InsertAt(dom, pos, n),
                                     !.mutated = TRUE]))
  /\ ret' = Ret("host", Null)
  /\ UNCHANGED fixedVars

HostRemove ==
  /\ \E pos \in 1..Len(dom) :
       Becomes(EndTask([World EXCEPT !.dom = RemoveAt(dom, pos),
                                     !.mutated = TRUE]))
  /\ ret' = Ret("host", Null)
  /\ UNCHANGED fixedVars

\* time advances by Step, unless a timer is due: a due timer fires first
NothingDue(w) ==
  /\ \A i \in 1..Len(w.timeouts) : w.timeouts[i].remaining > 0
  /\ IF IsNull(w.interval) THEN TRUE ELSE Get(w.interval) > 0

Advance(w) ==
  [w EXCEPT !.timeDiff = Min(@ + Step, AgeCap),
            !.timeouts = [i \in 1..Len(@) |->
                            [@[i] EXCEPT !.remaining = @ - Step]],
            !.interval = IF IsNull(@) THEN @ ELSE Some(Get(@) - Step),
            !.sinceRefresh = Min(@ + Step, DebounceDelay + Step),
            !.sinceScroll = Min(@ + Step, HighlightDelay + Step),
            !.quietFor = IF w.hostMoves = MaxHostMoves
                         THEN Min(@ + Step, QuietCap) ELSE @]

Tick ==
  /\ NothingDue(World)
  /\ Advance(World) # World
  /\ Becomes(Advance(World))
  /\ ret' = Ret("tick", Null)
  /\ UNCHANGED fixedVars

(***************************************************************************)
(* Spec: the detector and the extractor on a page whose configuration is   *)
(* loaded.  lastExtractTime starts at 0, so timeDiff starts saturated.     *)
(***************************************************************************)
\* the page before the content script runs and the objects as constructed
NewWorld ==
  [currentPlatform |-> Null, dom |-> <<>>, highlighted |-> {},
   scrolledTo |-> Null, messages |-> <<>>, timeDiff |-> AgeCap,
   sidebarElement |-> Null, bodySidebars |-> 0, isVisible |-> TRUE,
   highlightedElement |-> Null, debounceTimer |-> Null, timeouts |-> <<>>,
   interval |-> Null, stored |-> Null, storageRead |-> Null, pc |-> "load",
   observing |-> FALSE, listening |-> FALSE,
   sinceRefresh |-> DebounceDelay + Step, burstCalls |-> 0,
   burstCycles |-> 0, cycleAge |-> 0,
   sinceScroll |-> HighlightDelay + Step, lastScroll |-> Null,
   hostMoves |-> 0, quietFor |-> 0, userMoves |-> 0, mutated |-> FALSE]

\* the state is the world w
Is(w) ==
  /\ currentPlatform = w.currentPlatform
  /\ dom = w.dom
  /\ highlighted = w.highlighted
  /\ scrolledTo = w.scrolledTo
  /\ messages = w.messages
  /\ timeDiff = w.timeDiff
  /\ sidebarElement = w.sidebarElement
  /\ bodySidebars = w.bodySidebars
  /\ isVisible = w.isVisible
  /\ highlightedElement = w.highlightedElement
  /\ debounceTimer = w.debounceTimer
  /\ timeouts = w.timeouts
  /\ interval = w.interval
  /\ stored = w.stored
  /\ storageRead = w.storageRead
  /\ pc = w.pc
  /\ observing = w.observing
  /\ listening = w.listening
  /\ sinceRefresh = w.sinceRefresh
  /\ burstCalls = w.burstCalls
  /\ burstCycles = w.burstCycles
  /\ cycleAge = w.cycleAge
  /\ sinceScroll = w.sinceScroll
  /\ lastScroll = w.lastScroll
  /\ hostMoves = w.hostMoves
  /\ quietFor = w.quietFor
  /\ userMoves = w.userMoves

Init ==
  /\ hostname \in Hostnames
  /\ platformsConfig \in {Some(c) : c \in Configs}
  /\ fetched = <<>>
  /\ served = Null
  /\ input = ""
  /\ Is(NewWorld)
  /\ ret = Ret("new", Null)

Next ==
  \/ detectPlatform
  \/ extractMessages
  \/ shouldRefresh
  \/ HostInsert
  \/ HostRemove
  \/ Tick

Spec == Init /\ [][Next]_vars

(***************************************************************************)
(* SpecDetector: the detector alone, from its construction: init may run   *)
(* again and install another configuration.                                *)
(***************************************************************************)
InitDetector ==
  /\ hostname \in Hostnames
  /\ platformsConfig = Null
  /\ fetched = <<>>
  /\ served = Null
  /\ input = ""
  /\ Is(NewWorld)
  /\ ret = Ret("new", Null)

NextDetector ==
  \/ init
  \/ detectPlatform

SpecDetector == InitDetector /\ [][NextDetector]_vars

(***************************************************************************)
(* Operations of SidebarManager, called directly, and the clicks its       *)
(* listeners handle.                                                       *)
(***************************************************************************)
createSidebar ==
  /\ Becomes(EndTask(doCreateSidebar(World)))
  /\ ret' = Ret("createSidebar", sidebarElement')
  /\ UNCHANGED fixedVars

updateSidebar ==
  /\ Becomes(EndTask(doUpdateSidebar(World)))
  /\ ret' = Ret("updateSidebar", Null)
  /\ UNCHANGED fixedVars

toggleSidebar ==
  /\ Becomes(EndTask(doToggleSidebar(World)))
  /\ ret' = Ret("toggleSidebar", Null)
  /\ UNCHANGED fixedVars

show ==
  /\ Becomes(EndTask(doShow(World)))
  /\ ret' = Ret("show", Null)
  /\ UNCHANGED fixedVars

hide ==
  /\ Becomes(EndTask(doHide(World)))
  /\ ret' = Ret("hide", Null)
  /\ UNCHANGED fixedVars

destroy ==
  /\ Becomes(EndTask(doDestroy(World)))
  /\ ret' = Ret("destroy", Null)
  /\ UNCHANGED fixedVars

\* a click on the toggle button: every click listener attached to it runs
RECURSIVE toggleTimes(_, _)
toggleTimes(w, n) == IF n = 0 THEN w ELSE toggleTimes(doToggleSidebar(w), n - 1)

ClickToggle ==
  /\ ~IsNull(sidebarElement)
  /\ Becomes(EndTask(toggleTimes(ByUser(World), Get(sidebarElement).toggleListeners)))
  /\ ret' = Ret("clickToggle", Null)
  /\ UNCHANGED fixedVars

(***************************************************************************)
(* The state the library-level specifications of the sidebar start in:     *)
(* a supported page after detection (steps 1 to 3 of the content script),  *)
(* with the chat nodes the page has attached so far and the flag an        *)
(* earlier page load may have left in storage.                             *)
(***************************************************************************)
SupportedHosts == {"chatgpt.com", "chat.deepseek.com"}

InitialDom(host) == IF host = "chatgpt.com" THEN <<1, 3>> ELSE <<9, 10, 12>>

\* the world after detection on a supported page
DetectedWorld(host, flag) ==
  [NewWorld EXCEPT
     !.currentPlatform = detectPlatformResult(Some(getDefaultPlatformsConfig), host),
     !.dom = InitialDom(host),
     !.stored = flag]

\* the world after steps 4 and 5 of the content script: the sidebar is
\* created, the messages are extracted and rendered
PopulatedWorld(host, flag) ==
  EndTask(doUpdateSidebar(doExtractMessages(doCreateSidebar(DetectedWorld(host, flag)))))

StoredFlags == {Null, Some(TRUE), Some(FALSE)}

(***************************************************************************)
(* SpecVisibility: construction, rendering and visibility of the sidebar.  *)
(***************************************************************************)
InitVisibility ==
  /\ hostname \in SupportedHosts
  /\ platformsConfig = Some(getDefaultPlatformsConfig)
  /\ fetched = <<>>
  /\ served = Null
  /\ input = ""
  /\ \E flag \in StoredFlags : Is(DetectedWorld(hostname, flag))
  /\ ret = Ret("new", Null)

NextVisibility ==
  \/ createSidebar
  \/ extractMessages
  \/ updateSidebar
  \/ toggleSidebar
  \/ ClickToggle
  \/ show
  \/ hide
  \/ destroy

SpecVisibility == InitVisibility /\ [][NextVisibility]_vars

(***************************************************************************)
(* SpecNavigation: scrollToMessage, the clicks on rows and the highlight   *)
(* timers, on a populated sidebar whose chat nodes the page may detach.    *)
(***************************************************************************)
\* the most timeouts pending at once: a call that would set one more waits
MaxTimeouts == 2

\* the indices scrollToMessage is called with: NaN, a negative number, the
\* positions of the records and one past the last
NavIndexes == {Null} \cup {Some(k) : k \in -1..MaxDom}

scrollToMessage ==
  /\ Len(timeouts) < MaxTimeouts
  /\ \E index \in NavIndexes :
       /\ Becomes(EndTask(doScrollToMessage(World, index)))
       /\ ret' = Ret("scrollToMessage", index)
  /\ UNCHANGED fixedVars

\* a click on row p of the list: every click listener of the list parses
\* the data-index of the row and calls scrollToMessage
RECURSIVE scrollTimes(_, _, _)
scrollTimes(w, index, n) ==
  IF n = 0 THEN w ELSE scrollTimes(doScrollToMessage(w, index), index, n - 1)

ClickRow ==
  /\ ~IsNull(sidebarElement)
  /\ Len(timeouts) + Get(sidebarElement).listListeners <= MaxTimeouts
  /\ \E p \in 1..Len(Get(sidebarElement).rows) :
       LET index == Some(Get(sidebarElement).rows[p].dataIndex)
       IN /\ Becomes(EndTask(scrollTimes(ByUser(World), index,
                                         Get(sidebarElement).listListeners)))
          /\ ret' = Ret("clickRow", index)
  /\ UNCHANGED fixedVars

\* a pending timeout that is due fires: it leaves the queue and its callback
\* runs
TimeoutFires ==
  /\ \E i \in 1..Len(timeouts) :
       /\ timeouts[i].remaining = 0
       /\ LET w == [World EXCEPT !.timeouts = RemoveAt(@, i)]
          IN /\ Becomes(EndTask(IF timeouts[i].kind = "debounce"
                                THEN debounceCallback(w)
                                ELSE highlightCallback(w)))
             /\ ret' = Ret(timeouts[i].kind, Null)
  /\ UNCHANGED fixedVars

InitNavigation ==
  /\ hostname \in SupportedHosts
  /\ platformsConfig = Some(getDefaultPlatformsConfig)
  /\ fetched = <<>>
  /\ served = Null
  /\ input = ""
  /\ Is(PopulatedWorld(hostname, Null))
  /\ ret = Ret("new", Null)

NextNavigation ==
  \/ scrollToMessage
  \/ ClickRow
  \/ TimeoutFires
  \/ HostRemove
  \/ Tick

SpecNavigation == InitNavigation /\ [][NextNavigation]_vars

(***************************************************************************)
(* SpecDebounce: refresh() and its timeout on a populated sidebar, while   *)
(* the page detaches chat nodes and time passes.                           *)
(***************************************************************************)
refresh ==
  /\ Len(timeouts) < MaxTimeouts
  /\ Becomes(EndTask(doRefresh(World)))
  /\ ret' = Ret("refresh", Null)
  /\ UNCHANGED fixedVars

InitDebounce ==
  /\ hostname \in SupportedHosts
  /\ platformsConfig = Some(getDefaultPlatformsConfig)
  /\ fetched = <<>>
  /\ served = Null
  /\ input = ""
  /\ Is(PopulatedWorld(hostname, Null))
  /\ ret = Ret("new", Null)

NextDebounce ==
  \/ refresh
  \/ TimeoutFires
  \/ HostRemove
  \/ Tick

SpecDebounce == InitDebounce /\ [][NextDebounce]_vars

(***************************************************************************)
(* The content script.  Its body runs as two tasks: up to the await of     *)
(* init(), and from there to the end.                                      *)
(***************************************************************************)
ScriptInit ==
  /\ pc = "load"
  /\ \E sv \in Served :
       LET r == initResult(sv.outcomes, responseBody(sv.outcomes, sv.bodies))
       IN /\ platformsConfig' = Some(r.config)
          /\ fetched' = r.log
          /\ served' = Some(sv)
  /\ Becomes([World EXCEPT !.pc = "initialized"])
  /\ ret' = Ret("scriptInit", Null)
  /\ UNCHANGED <<hostname, input>>

\* steps 2 to 10 of the content script on a supported page.  The observer
\* is created after the sidebar is built and rendered, so it records none
\* of those changes.
scriptBody(w) ==
  LET w1 == doUpdateSidebar(doExtractMessages(doCreateSidebar(w)))
  IN [w1 EXCEPT !.mutated = FALSE,
                !.storageRead = Some(w1.stored),
                !.observing = TRUE,
                !.listening = TRUE,
                !.interval = Some(IntervalDelay),
                !.pc = "running"]

\* the content script without the return of line 19
ScriptStart_noReturn ==
  /\ pc = "initialized"
  /\ LET found == detectPlatformResult(platformsConfig, hostname)
     IN Becomes(scriptBody([World EXCEPT
                              !.currentPlatform = IF IsNull(found) THEN @ ELSE found]))
  /\ ret' = Ret("scriptStart", Null)
  /\ UNCHANGED fixedVars

ScriptStart ==
  /\ pc = "initialized"
  /\ LET found == detectPlatformResult(platformsConfig, hostname)
     IN IF IsNull(found)
        THEN Becomes([World EXCEPT !.pc = "unsupported"])
        ELSE Becomes(scriptBody([World EXCEPT !.currentPlatform = found]))
  /\ ret' = Ret("scriptStart", Null)
  /\ UNCHANGED fixedVars

\* the callback of chrome.storage.local.get: the result is the flag as it
\* was when the read was issued or as it is when the read completes
StorageReadDone ==
  /\ ~IsNull(storageRead)
  /\ \E result \in {Get(storageRead), stored} :
       Becomes(EndTask(LET w == [World EXCEPT !.storageRead = Null]
                       IN IF result = Some(FALSE) THEN doHide(w) ELSE w))
  /\ ret' = Ret("storageRead", Null)
  /\ UNCHANGED fixedVars

\* the host page attaches or detaches a chat node while the script runs
PageInsert ==
  /\ pc # "load"
  /\ hostMoves < MaxHostMoves
  /\ Len(dom) < MaxDom
  /\ \E n \in PagePool(hostname) \ Attached(dom), pos \in 1..(Len(dom) + 1) :
       Becomes(EndTask([World EXCEPT !.dom = InsertAt(dom, pos, n),
                                     !.hostMoves = @ + 1,
                                     !.mutated = TRUE]))
  /\ ret' = Ret("host", Null)
  /\ UNCHANGED fixedVars

PageRemove ==
  /\ pc # "load"
  /\ hostMoves < MaxHostMoves
  /\ \E pos \in 1..Len(dom) :
       Becomes(EndTask([World EXCEPT !.dom = RemoveAt(dom, pos),
                                     !.hostMoves = @ + 1,
                                     !.mutated = TRUE]))
  /\ ret' = Ret("host", Null)
  /\ UNCHANGED fixedVars

\* the callback of the setInterval of the content script
intervalCallback(w) ==
  IF shouldRefreshResult(w.dom, w.currentPlatform, w.messages, w.timeDiff)
  THEN doRefresh(w) ELSE w

IntervalFires ==
  /\ ~IsNull(interval)
  /\ Get(interval) = 0
  /\ Becomes(EndTask(intervalCallback([World EXCEPT !.interval = Some(IntervalDelay)])))
  /\ ret' = Ret("interval", Null)
  /\ UNCHANGED fixedVars

\* the requests of the popup, handled by the runtime.onMessage listener:
\* the value is Some(response), or Null when no listener is registered and
\* the request gets no response
PopupToggle ==
  /\ IF listening
     THEN /\ Becomes(EndTask(doToggleSidebar(ByUser(World))))
          /\ ret' = Ret("popupToggle", Some([success |-> TRUE]))
     ELSE /\ Becomes(ByUser(World))
          /\ ret' = Ret("popupToggle", Null)
  /\ UNCHANGED fixedVars

PopupRefresh ==
  /\ Len(timeouts) < MaxTimeouts
  /\ IF listening
     THEN /\ Becomes(EndTask(doRefresh(ByUser(World))))
          /\ ret' = Ret("popupRefresh", Some([success |-> TRUE]))
     ELSE /\ Becomes(ByUser(World))
          /\ ret' = Ret("popupRefresh", Null)
  /\ UNCHANGED fixedVars

PopupGetStatus ==
  /\ Becomes(ByUser(World))
  /\ ret' = Ret("popupGetStatus",
                IF listening
                THEN Some([platform |-> getPlatformName(currentPlatform),
                           messageCount |-> Len(messages),
                           sidebarVisible |-> isVisible])
                ELSE Null)
  /\ UNCHANGED fixedVars

\* the beforeunload listener
unloadHandler(w) == doDestroy([w EXCEPT !.observing = FALSE, !.mutated = FALSE])

Unload ==
  /\ pc = "running"
  /\ Becomes(EndTask([unloadHandler(World) EXCEPT !.pc = "unloaded"]))
  /\ ret' = Ret("unload", Null)
  /\ UNCHANGED fixedVars

(***************************************************************************)
(* SpecSync: the content script keeping the sidebar in step with a page    *)
(* that makes MaxHostMoves mutations and then stops changing.              *)
(***************************************************************************)
SyncHosts == {"chatgpt.com", "chat.deepseek.com", "example.org"}

\* init() has returned: no candidate path could be fetched and the built-in
\* configuration is installed
InitSync ==
  /\ hostname \in SyncHosts
  /\ platformsConfig = Some(getDefaultPlatformsConfig)
  /\ fetched = possiblePaths
  /\ served = Some([outcomes |-> [i \in 1..Len(possiblePaths) |-> "throw"],
                     bodies |-> [i \in 1..Len(possiblePaths) |-> Null]])
  /\ input = ""
  /\ \E d \in {<<>>, InitialDom(hostname)} :
       Is([NewWorld EXCEPT !.pc = "initialized", !.dom = d])
  /\ ret = Ret("new", Null)

NextSync ==
  \/ ScriptStart
  \/ StorageReadDone
  \/ PageInsert
  \/ PageRemove
  \/ TimeoutFires
  \/ IntervalFires
  \/ Tick

SpecSync == InitSync /\ [][NextSync]_vars

(***************************************************************************)
(* SpecPage: the content script on a supported page with its user: the     *)
(* page changes, timers fire, the popup sends its requests and the user    *)
(* clicks the toggle button and the rows of the list.                      *)
(***************************************************************************)
PageHosts == {"chatgpt.com", "chat.deepseek.com"}

\* the page and the user are observed on the beat: at the start of the
\* script, and at the middle and the end of every period of its interval
Beat == IntervalDelay \div 2
OnBeat == IF IsNull(interval) THEN TRUE ELSE Get(interval) % Beat = 0

\* the user gives at most MaxUserMoves commands
UserActs == OnBeat /\ userMoves < MaxUserMoves

BeatPageInsert == OnBeat /\ PageInsert
BeatPageRemove == OnBeat /\ PageRemove
UserPopupToggle == UserActs /\ PopupToggle
UserPopupRefresh == UserActs /\ PopupRefresh
UserPopupGetStatus == UserActs /\ PopupGetStatus
UserClickToggle == UserActs /\ ClickToggle
UserClickRow == UserActs /\ ClickRow

InitPage ==
  /\ hostname \in PageHosts
  /\ platformsConfig = Some(getDefaultPlatformsConfig)
  /\ fetched = possiblePaths
  /\ served = Some([outcomes |-> [i \in 1..Len(possiblePaths) |-> "throw"],
                     bodies |-> [i \in 1..Len(possiblePaths) |-> Null]])
  /\ input = ""
  /\ Is([NewWorld EXCEPT !.pc = "initialized", !.dom = InitialDom(hostname),
                          !.hostMoves = MaxHostMoves - 1])
  /\ ret = Ret("new", Null)

NextPage ==
  \/ ScriptStart
  \/ BeatPageInsert
  \/ BeatPageRemove
  \/ TimeoutFires
  \/ IntervalFires
  \/ Tick
  \/ UserPopupToggle
  \/ UserPopupRefresh
  \/ UserPopupGetStatus
  \/ UserClickToggle
  \/ UserClickRow

SpecPage == InitPage /\ [][NextPage]_vars

(***************************************************************************)
(* SpecTeardown: the content script on a supported page that fires         *)
(* beforeunload and stays open: the interval goes on, the page changes     *)
(* and the popup sends toggle and refresh requests.                        *)
(***************************************************************************)
BeatUnload == OnBeat /\ Unload

NextTeardown ==
  \/ ScriptStart
  \/ BeatUnload
  \/ BeatPageInsert
  \/ BeatPageRemove
  \/ TimeoutFires
  \/ IntervalFires
  \/ Tick
  \/ UserPopupToggle
  \/ UserPopupRefresh

SpecTeardown == InitPage /\ [][NextTeardown]_vars

(***************************************************************************)
(* SpecRestore: the start of the content script on a supported page whose  *)
(* storage holds any flag, with the completion of the storage read         *)
(* interleaved with the toggles and status requests of the user.           *)
(***************************************************************************)
InitRestore ==
  /\ hostname \in PageHosts
  /\ platformsConfig = Some(getDefaultPlatformsConfig)
  /\ fetched = possiblePaths
  /\ served = Some([outcomes |-> [i \in 1..Len(possiblePaths) |-> "throw"],
                     bodies |-> [i \in 1..Len(possiblePaths) |-> Null]])
  /\ input = ""
  /\ \E flag \in StoredFlags :
       Is([NewWorld EXCEPT !.pc = "initialized", !.dom = InitialDom(hostname),
                           !.stored = flag])
  /\ ret = Ret("new", Null)

NextRestore ==
  \/ ScriptStart
  \/ StorageReadDone
  \/ ClickToggle
  \/ PopupToggle
  \/ PopupGetStatus

SpecRestore == InitRestore /\ [][NextRestore]_vars

(***************************************************************************)
(* SpecUnsupported: the content script on a page that no definition of the *)
(* loaded configuration matches, after init() has returned; the page       *)
(* changes, the popup sends its requests and the extractor is called.      *)
(***************************************************************************)
UnsupportedPages ==
  {pg \in [hostname : Hostnames, config : Configs] :
     IsNull(detectPlatformResult(Some(pg.config), pg.hostname))}

InitUnsupported ==
  /\ \E pg \in UnsupportedPages :
       /\ hostname = pg.hostname
       /\ platformsConfig = Some(pg.config)
  /\ fetched = <<>>
  /\ served = Null
  /\ input = ""
  /\ Is([NewWorld EXCEPT !.pc = "initialized"])
  /\ ret = Ret("new", Null)

NextUnsupported ==
  \/ ScriptStart
  \/ PageInsert
  \/ PageRemove
  \/ PopupToggle
  \/ PopupRefresh
  \/ PopupGetStatus
  \/ extractMessages
  \/ shouldRefresh

SpecUnsupported == InitUnsupported /\ [][NextUnsupported]_vars

(***************************************************************************)
(* SpecText: escapeHtml, getPreview and the row template of updateSidebar  *)
(* applied to a text.  The texts are every string of up to MaxLen          *)
(* characters of Alphabet, alone, between two letters, or with a run of    *)
(* letters before or after it that brings the length to either side of     *)
(* PreviewLength.                                                          *)
(***************************************************************************)
MaxLen == 3

Alphabet == {"x", " ", "\n", Backtick, "&", "<", ">", "\"", "'", ";"}

RECURSIVE Strings(_)
Strings(n) ==
  IF n = 0 THEN {""}
  ELSE LET shorter == Strings(n - 1)
       IN shorter \cup {s \o c : s \in shorter, c \in Alphabet}

RECURSIVE Letters(_)
Letters(n) ==
  IF n = 0 THEN ""
  ELSE IF n = 1 THEN "x"
  ELSE Letters(n \div 2) \o Letters(n - n \div 2)

\* the lengths of the runs of letters before and after
Runs ==
  {<<0, 0>>, <<1, 1>>, <<PreviewLength - 1, 0>>, <<0, PreviewLength - 1>>}

Texts ==
  {Letters(run[1]) \o middle \o Letters(run[2]) :
     run \in Runs, middle \in Strings(MaxLen)}

callEscapeHtml ==
  /\ Becomes(World)
  /\ ret' = Ret("escapeHtml", escapeHtml(input))
  /\ UNCHANGED fixedVars

callGetPreview ==
  /\ Becomes(World)
  /\ ret' = Ret("getPreview", getPreview(input, PreviewLength))
  /\ UNCHANGED fixedVars

\* the row updateSidebar renders for the record extractMessages makes of an
\* element whose text is the input
renderRow ==
  /\ trim(input) # ""
  /\ Becomes(World)
  /\ ret' = Ret("row", Row(MessageRecord(0, trim(input), <<1, 0>>), 0))
  /\ UNCHANGED fixedVars

InitText ==
  /\ hostname = "chatgpt.com"
  /\ platformsConfig = Some(getDefaultPlatformsConfig)
  /\ fetched = <<>>
  /\ served = Null
  /\ input \in Texts
  /\ Is(NewWorld)
  /\ ret = Ret("new", Null)

NextText ==
  \/ callEscapeHtml
  \/ callGetPreview
  \/ renderRow

SpecText == InitText /\ [][NextText]_vars

(***************************************************************************)
(* Vocabulary of the properties.                                           *)
(***************************************************************************)
\* the nodes of the document, as a set of references
DocRefs(d) ==
  UNION {{<<d[i], k>> : k \in 0..Len(NodePool[d[i]].children)} : i \in 1..Len(d)}

\* the elements an extraction pass looks at: the containers that hold a user
\* marker (DeepSeek), or the elements the first user selector that matches
\* anything matches (all other platforms), in document order
UserElements(d, platform) ==
  IF platform.key = "deepseek"
  THEN SelectSeq(DocOrder(d),
                 LAMBDA r : /\ Matches(r, ".ds-message")
                            /\ \E c \in DocRefs(d) :
                                 c[1] = r[1] /\ c[2] > 0 /\ Matches(c, ".fbb737a4"))
  ELSE LET sels == userSelectors(platform)
           hit == {i \in 1..Len(sels) : \E r \in DocRefs(d) : Matches(r, sels[i])}
       IN IF hit = {} THEN <<>>
          ELSE LET first == CHOOSE i \in hit : \A j \in hit : i <= j
               IN SelectSeq(DocOrder(d), LAMBDA r : Matches(r, sels[first]))

\* the trimmed text an extraction pass reads from a user element
UserText(d, platform, r) ==
  IF platform.key = "deepseek"
  THEN trim(textContent(Get(querySelector(r, ".fbb737a4"))))
  ELSE extractText(d, r, platform.selectors.messageContent)

\* the qualifying user messages: the user elements whose text is not empty
QualifyingElements(d, platform) ==
  SelectSeq(UserElements(d, platform), LAMBDA r : UserText(d, platform, r) # "")

\* the live count of matching user-message elements that shouldRefresh looks
\* at: the nodes the platform's user-message selector matches, or the marker
\* nodes inside message containers (DeepSeek)
LiveMatchCount(d, platformMaybe) ==
  IF IsNull(platformMaybe) THEN 0
  ELSE IF Get(platformMaybe).key = "deepseek"
       THEN Cardinality({r \in DocRefs(d) :
              r[2] > 0 /\ Matches(r, ".fbb737a4") /\ Matches(<<r[1], 0>>, ".ds-message")})
       ELSE Cardinality({r \in DocRefs(d) :
              Matches(r, Get(platformMaybe).selectors.userMessage)})

Extracted == ret.op = "extractMessages" /\ ~IsNull(currentPlatform)

(***************************************************************************)
(* C1.  Every extractMessages call made while a platform is active         *)
(* replaces the stored list and the timestamp: right after the call the    *)
(* stored list is the list the call returned, the time since the last      *)
(* extraction is zero, and the stored record count is the live count of    *)
(* qualifying elements, so no record of a removed element is retained.     *)
(* The code does not do this on the generic path when no element matches.  *)
(***************************************************************************)
C1_ExtractReplacesCache ==
  Extracted =>
    /\ messages = ret.value
    /\ timeDiff = 0
    /\ Len(messages) = Len(QualifyingElements(dom, Get(currentPlatform)))

(***************************************************************************)
(* C3.  On either path, extractMessages on a DOM whose N user elements all *)
(* have non-empty trimmed text returns exactly N records; the record at    *)
(* position p has index p - 1 and refers to the p-th user element in       *)
(* document order.                                                         *)
(***************************************************************************)
AllTextNonEmpty ==
  \A i \in 1..Len(UserElements(dom, Get(currentPlatform))) :
    UserText(dom, Get(currentPlatform), UserElements(dom, Get(currentPlatform))[i]) # ""

C3_AllNonEmptyYieldsN ==
  (Extracted /\ AllTextNonEmpty) =>
    LET elements == UserElements(dom, Get(currentPlatform))
    IN /\ Len(ret.value) = Len(elements)
       /\ \A p \in 1..Len(elements) :
            /\ ret.value[p].index = p - 1
            /\ ret.value[p].userElement = elements[p]
            /\ ret.value[p].userText = UserText(dom, Get(currentPlatform), elements[p])

C3_Witness ==
  /\ Extracted
  /\ AllTextNonEmpty
  /\ Get(currentPlatform).key # "deepseek"
  /\ Len(ret.value) >= 2

(***************************************************************************)
(* C4.  The index fields of the records of one extraction pass are dense:  *)
(* the record at list position p carries index p - 1, also when matched    *)
(* elements with empty text are skipped.  The generic path numbers the     *)
(* records by the position of the element among the matched elements, so   *)
(* a skipped element leaves a gap.                                         *)
(***************************************************************************)
C4_DenseIndices ==
  ret.op = "extractMessages" =>
    \A p \in 1..Len(ret.value) : ret.value[p].index = p - 1

(***************************************************************************)
(* C5 as stated.  shouldRefresh returns true exactly when more than 2      *)
(* seconds have passed since the last extraction or the live count of      *)
(* matching user-message elements differs from the cached record count.    *)
(***************************************************************************)
C5_GateAsStated ==
  ret.op = "shouldRefresh" =>
    ret.value = (timeDiff > RefreshAge
                 \/ LiveMatchCount(dom, currentPlatform) # Len(messages))

(***************************************************************************)
(* C5 as amended.  With an active platform shouldRefresh returns true      *)
(* exactly when more than 2 seconds have passed since the last extraction  *)
(* or the live count differs from the cached record count; with no active  *)
(* platform it returns false.                                              *)
(***************************************************************************)
C5_GateWhenPlatformActive ==
  ret.op = "shouldRefresh" =>
    ret.value = (/\ ~IsNull(currentPlatform)
                 /\ \/ timeDiff > RefreshAge
                    \/ LiveMatchCount(dom, currentPlatform) # Len(messages))

\* the scenario of the specification: live count 3, cached count 2, last
\* extraction less than 2 seconds ago
C5_Witness ==
  /\ ret.op = "shouldRefresh"
  /\ ret.value = TRUE
  /\ ~IsNull(currentPlatform)
  /\ timeDiff <= RefreshAge
  /\ Len(messages) = 2
  /\ LiveMatchCount(dom, currentPlatform) = 3

(***************************************************************************)
(* C10.  detectPlatform returns the first definition, in registration      *)
(* order, one of whose patterns occurs in the hostname, and records it as  *)
(* the active definition; it returns null when no pattern of any           *)
(* definition occurs in the hostname or no configuration is loaded, and    *)
(* then leaves the active definition as it was.                            *)
(***************************************************************************)
Occurs(pattern, s) ==
  \E i \in 1..(Len(s) + 1) :
    i + Len(pattern) - 1 <= Len(s) /\ SubSeq(s, i, i + Len(pattern) - 1) = pattern

MatchingDefinitions(config, host) ==
  IF IsNull(config) THEN {}
  ELSE {i \in 1..Len(Get(config)) :
          \E j \in 1..Len(Get(config)[i].urls) : Occurs(Get(config)[i].urls[j], host)}

C10_DetectFirstMatch ==
  [][ret'.op = "detectPlatform" /\ ret' # ret =>
        LET matching == MatchingDefinitions(platformsConfig, hostname)
        IN IF matching = {}
           THEN ret'.value = Null /\ currentPlatform' = currentPlatform
           ELSE LET first == CHOOSE i \in matching : \A j \in matching : i <= j
                IN /\ ret'.value = Some(Get(platformsConfig)[first])
                   /\ currentPlatform' = ret'.value
                   /\ Get(currentPlatform').key = Get(platformsConfig)[first].key]_vars

\* two definitions match the hostname and the one returned is the first of
\* the configuration, not the one whose pattern comes first in the hostname
C10_Witness ==
  /\ ret.op = "detectPlatform"
  /\ Cardinality(MatchingDefinitions(platformsConfig, hostname)) >= 2
  /\ ~IsNull(ret.value)
  /\ Get(ret.value).key = "chatgpt"
  /\ hostname = "claude.ai.chatgpt.com"

(***************************************************************************)
(* C9.  toggleSidebar, show and hide each write the visibility they set to *)
(* the persisted flag sidebarVisible: right after any of them ran on a     *)
(* constructed sidebar the stored flag is the visibility state.  In the    *)
(* code only toggleSidebar writes the flag.                                *)
(***************************************************************************)
C9_VisibilityPersisted ==
  (ret.op \in {"toggleSidebar", "clickToggle", "show", "hide"}
     /\ ~IsNull(sidebarElement))
    => stored = Some(isVisible)

(***************************************************************************)
(* C7.  A successful scrollToMessage supersedes the pending highlight      *)
(* removal of an earlier one: the element it highlights stays highlighted, *)
(* and tracked, until 3 seconds after it (unless another scrollToMessage   *)
(* succeeds first), and is un-highlighted then.  In the code the timeout   *)
(* of the earlier call stays pending and removes the highlight early.      *)
(***************************************************************************)
C7_HighlightKeptThreeSeconds ==
  /\ sinceScroll < HighlightDelay =>
       /\ highlightedElement = lastScroll
       /\ Get(lastScroll) \in highlighted
  /\ sinceScroll > HighlightDelay =>
       /\ highlightedElement = Null
       /\ highlighted = {}

(***************************************************************************)
(* C8.  scrollToMessage with an index that has no cached record (NaN,      *)
(* negative, or not below the number of records) is a no-op: the sidebar   *)
(* element with its rows and active row, the scroll position, the          *)
(* highlight classes, the tracked highlighted element and the pending      *)
(* timers all stay as they were.                                           *)
(***************************************************************************)
NoRecord(index, msgs) ==
  IF IsNull(index) THEN TRUE ELSE Get(index) < 0 \/ Get(index) >= Len(msgs)

C8_NavigateAbsentIsNoOp ==
  [][(ret'.op = "scrollToMessage" /\ NoRecord(ret'.value, messages)) =>
       UNCHANGED <<sidebarElement, bodySidebars, isVisible, scrolledTo,
                   highlighted, highlightedElement, timeouts, interval,
                   debounceTimer, messages, timeDiff, stored, dom>>]_vars

\* a call with the index one past the last record while a highlight and its
\* removal are pending and a row is active
C8_Witness ==
  /\ ret.op = "scrollToMessage"
  /\ ~IsNull(ret.value)
  /\ Get(ret.value) = Len(messages)
  /\ Len(messages) > 0
  /\ ~IsNull(highlightedElement)
  /\ Len(timeouts) > 0
  /\ ~IsNull(Get(sidebarElement).active)

(***************************************************************************)
(* C6.  refresh() is debounced with one slot that a new call replaces:     *)
(* at most one debounce timeout is pending, it is the one debounceTimer    *)
(* names and it is due 500ms after the last call; no extract+render cycle  *)
(* runs while the burst goes on; the cycle runs 500ms after the last call  *)
(* of the burst and is the only one of the burst.                          *)
(***************************************************************************)
PendingDebounce == {i \in 1..Len(timeouts) : timeouts[i].kind = "debounce"}

C6_DebounceSingleSlot ==
  /\ Cardinality(PendingDebounce) <= 1
  /\ \A i \in PendingDebounce :
       /\ debounceTimer = Some(timeouts[i].id)
       /\ timeouts[i].remaining = DebounceDelay - sinceRefresh
       /\ burstCycles = 0
  /\ ret.op = "debounce" => cycleAge = DebounceDelay
  /\ (PendingDebounce = {} /\ burstCalls > 0) => burstCycles = 1

\* the cycle of a burst of three or more calls has just run
C6_Witness ==
  /\ ret.op = "debounce"
  /\ burstCalls >= 3
  /\ burstCycles = 1
  /\ cycleAge = DebounceDelay

(***************************************************************************)
(* C2.  The sidebar index is kept synchronized with the chat DOM: once the *)
(* host page has made its last mutation, the content script on a supported *)
(* platform reaches, and stays in, a state where the rendered rows are     *)
(* the qualifying live user messages in document order.  The code keeps    *)
(* the rows of removed messages when the generic path finds no element.    *)
(***************************************************************************)
ExpectedRows ==
  LET platform == Get(currentPlatform)
      live == QualifyingElements(dom, platform)
  IN [p \in 1..Len(live) |->
        Row(MessageRecord(p - 1, UserText(dom, platform, live[p]), live[p]), p - 1)]

RowsInSync ==
  /\ ~IsNull(sidebarElement)
  /\ Get(sidebarElement).rows = ExpectedRows

Quiet == hostMoves = MaxHostMoves /\ quietFor > QuietTime

C2_SyncedOnceQuiet == (pc = "running" /\ Quiet) => RowsInSync

\* the rows that are out of step once the page is quiet stay out of step
\* in every later step: no later state of the run is the one C2 promises
C2_StaleForever ==
  [][(pc = "running" /\ Quiet /\ ~RowsInSync) => ~RowsInSync']_vars

(***************************************************************************)
(* C11.  init never fails and leaves a configuration loaded: whatever each *)
(* candidate location answers (a successful response, an unsuccessful      *)
(* response, a thrown fetch error, an unparsable body), the candidates are *)
(* fetched in order, none after the first that succeeds, the configuration *)
(* is the one that first successful candidate serves, and with no          *)
(* successful candidate it is the built-in set of chatgpt, gemini, claude, *)
(* deepseek and doubao.  The code stops at the first ok response even when *)
(* its body does not parse.                                                *)
(***************************************************************************)
Succeeds(i) ==
  /\ Get(served).outcomes[i] = "ok"
  /\ ~IsNull(Get(served).bodies[i])

Successful == {i \in 1..Len(possiblePaths) : Succeeds(i)}

FirstSuccessful == CHOOSE i \in Successful : \A j \in Successful : i <= j

DefaultKeys == <<"chatgpt", "gemini", "claude", "deepseek", "doubao">>

C11_InitFirstSuccessWins ==
  ret.op = "init" =>
    /\ ~IsNull(platformsConfig)
    /\ \E n \in 0..Len(possiblePaths) : fetched = SubSeq(possiblePaths, 1, n)
    /\ IF Successful # {}
       THEN /\ fetched = SubSeq(possiblePaths, 1, FirstSuccessful)
            /\ platformsConfig = Get(served).bodies[FirstSuccessful]
       ELSE /\ platformsConfig = Some(getDefaultPlatformsConfig)
            /\ [i \in 1..Len(getDefaultPlatformsConfig) |->
                  getDefaultPlatformsConfig[i].key] = DefaultKeys

(***************************************************************************)
(* C12.  createSidebar is idempotent: called while the element exists it   *)
(* returns that element, appends no node and attaches no listener.  So     *)
(* after any calls of createSidebar, updateSidebar, show, hide,            *)
(* toggleSidebar and destroy the page holds at most one sidebar element,   *)
(* the one the manager tracks, with one click listener on its toggle       *)
(* button, and a click on that button flips the visibility exactly once.   *)
(***************************************************************************)
SingleSidebar ==
  /\ bodySidebars <= 1
  /\ IsNull(sidebarElement) <=> bodySidebars = 0
  /\ ~IsNull(sidebarElement) =>
       /\ Get(sidebarElement).toggleListeners = 1
       /\ Get(sidebarElement).listListeners = 1

C12_CreateSidebarIdempotent ==
  /\ []SingleSidebar
  /\ [][/\ (ret'.op = "createSidebar" /\ ~IsNull(sidebarElement)) =>
             /\ sidebarElement' = sidebarElement
             /\ bodySidebars' = bodySidebars
             /\ ret'.value = sidebarElement
        /\ ret'.op = "clickToggle" => isVisible' = ~isVisible]_vars

\* a second createSidebar on a sidebar that already shows rows
C12_Witness ==
  /\ ret.op = "createSidebar"
  /\ ~IsNull(sidebarElement)
  /\ Len(Get(sidebarElement).rows) > 0
  /\ bodySidebars = 1

(***************************************************************************)
(* C13.  escapeHtml leaves no literal <, >, " or ' in its output, and      *)
(* every & of the output starts one of the five entities; the title and    *)
(* the text of a row updateSidebar renders are escaped this way.           *)
(***************************************************************************)
Entities == {"&amp;", "&lt;", "&gt;", "&quot;", "&#039;"}

Escaped(out) ==
  \A i \in 1..Len(out) :
    LET c == SubSeq(out, i, i)
    IN /\ c \notin {"<", ">", "\"", "'"}
       /\ c = "&" =>
            \E e \in Entities :
              /\ i + Len(e) - 1 <= Len(out)
              /\ SubSeq(out, i, i + Len(e) - 1) = e

Reserved(s) ==
  {i \in 1..Len(s) : SubSeq(s, i, i) \in {"&", "<", ">", "\"", "'"}}

C13_EscapeHtmlSafe ==
  /\ ret.op = "escapeHtml" => Escaped(ret.value)
  /\ ret.op = "row" => Escaped(ret.value.title) /\ Escaped(ret.value.text)

\* a row rendered from a text with three reserved characters
C13_Witness ==
  /\ ret.op = "row"
  /\ Cardinality(Reserved(input)) >= 3
  /\ "'" \in {SubSeq(input, i, i) : i \in 1..Len(input)}

(***************************************************************************)
(* C14.  getPreview(text, 60) returns at most 63 characters: at most 60    *)
(* characters of content, then the three-character ellipsis only when the  *)
(* normalized text is longer than 60; and no backtick.                     *)
(***************************************************************************)
Ellipsis == "..."

Chars(s) == {SubSeq(s, i, i) : i \in 1..Len(s)}

C14_PreviewBounded ==
  ret.op = "getPreview" =>
    /\ Len(ret.value) <= PreviewLength + Len(Ellipsis)
    /\ Backtick \notin Chars(ret.value)
    /\ IF Len(ret.value) > PreviewLength
       THEN /\ Len(ret.value) = PreviewLength + Len(Ellipsis)
            /\ SubSeq(ret.value, PreviewLength + 1, Len(ret.value)) = Ellipsis
            /\ "." \notin Chars(SubSeq(ret.value, 1, PreviewLength))
            /\ Len(input) > PreviewLength
       ELSE "." \notin Chars(ret.value)

\* a text with a backtick whose preview is cut and carries the ellipsis
C14_Witness ==
  /\ ret.op = "getPreview"
  /\ Len(ret.value) = PreviewLength + Len(Ellipsis)
  /\ Backtick \in Chars(input)

(***************************************************************************)
(* C15.  The preview has collapsed whitespace: no two whitespace           *)
(* characters in a row and no whitespace in front, for every text, also    *)
(* one with a backtick between two whitespace characters.  The code        *)
(* removes the backticks after it collapsed the runs, which joins the two  *)
(* runs around a backtick.                                                 *)
(***************************************************************************)
C15_PreviewCollapsed ==
  ret.op = "getPreview" =>
    /\ \A i \in 1..(Len(ret.value) - 1) :
         ~(IsSpace(SubSeq(ret.value, i, i)) /\ IsSpace(SubSeq(ret.value, i + 1, i + 1)))
    /\ Len(ret.value) > 0 => ~IsSpace(SubSeq(ret.value, 1, 1))

(***************************************************************************)
(* C16.  An unsupported platform is a terminal no-op state: once detection *)
(* at page load found no match, no sidebar element exists, no observer, no *)
(* interval, no timeout and no command listener is installed (a request of *)
(* the popup gets no response), extractMessages returns the empty list,    *)
(* and the script never leaves that state.                                 *)
(***************************************************************************)
NothingInstalled ==
  /\ IsNull(sidebarElement)
  /\ bodySidebars = 0
  /\ ~observing
  /\ IsNull(interval)
  /\ timeouts = <<>>
  /\ ~listening
  /\ messages = <<>>
  /\ ret.op \in {"popupToggle", "popupRefresh", "popupGetStatus"} => IsNull(ret.value)
  /\ ret.op = "extractMessages" => ret.value = <<>>

\* the content script ran on a page that detection does not match
Unsupported ==
  /\ pc \notin {"load", "initialized"}
  /\ IsNull(detectPlatformResult(platformsConfig, hostname))

C16_UnsupportedIsTerminal ==
  /\ [](Unsupported => pc = "unsupported" /\ NothingInstalled)
  /\ [][pc = "unsupported" => pc' = "unsupported"]_vars

\* the popup asked for the status of an unsupported page that shows nodes
C16_Witness ==
  /\ pc = "unsupported"
  /\ ret.op = "popupGetStatus"
  /\ Len(dom) > 0

(***************************************************************************)
(* C17.  Extraction and render are paired: in every state between two      *)
(* callbacks in which the sidebar exists, the rendered rows are the cached *)
(* records of the extractor, one row per record: the row at position p     *)
(* carries the lookup key p, the ordinal p + 1 and the escaped preview of  *)
(* the cached record p (positions from 0), and a click on a row navigates  *)
(* to the record whose preview the row shows.                              *)
(***************************************************************************)
RowsPaired ==
  ~IsNull(sidebarElement) =>
    LET rows == Get(sidebarElement).rows
    IN /\ Len(rows) = Len(messages)
       /\ \A p \in 1..Len(rows) :
            /\ rows[p].dataIndex = p - 1
            /\ rows[p].number = p
            /\ rows[p].text = escapeHtml(messages[p].preview)

ClickNavigates ==
  ret'.op = "clickRow" =>
    \E p \in 1..Len(messages) :
      /\ Get(sidebarElement).rows[p].dataIndex = Get(ret'.value)
      /\ Get(sidebarElement).rows[p].text = escapeHtml(messages[p].preview)
      /\ scrolledTo' = Some(messages[p].userElement)
      /\ highlightedElement' = Some(messages[p].userElement)

C17_ExtractRenderPaired == []RowsPaired /\ [][ClickNavigates]_vars

\* a row is clicked after the page changed and the list was rendered again
C17_Witness ==
  /\ ret.op = "clickRow"
  /\ hostMoves > 0
  /\ RowsInSync
  /\ Len(messages) > 1

(***************************************************************************)
(* C18.  Teardown is final: once the beforeunload handler has run, no      *)
(* sidebar element is in the page again and no debounce callback runs      *)
(* another extract and render cycle.  The code leaves the interval and the *)
(* command listener registered, and updateSidebar creates the sidebar it   *)
(* does not find.                                                          *)
(***************************************************************************)
TornDown == pc = "unloaded" => IsNull(sidebarElement) /\ bodySidebars = 0

NoCycleAfterUnload == pc = "unloaded" => ret'.op # "debounce"

C18_TeardownFinal == []TornDown /\ [][NoCycleAfterUnload]_vars

(***************************************************************************)
(* C19.  After any sequence of clicks on rows, highlight timeouts and      *)
(* refresh cycles under the content script, at most one chat element       *)
(* carries the highlight class, an element carries it exactly when it is   *)
(* the tracked highlightedElement, and when no scrollToMessage succeeded   *)
(* in the last HighlightDelay ms no element is highlighted and nothing is  *)
(* tracked.                                                                *)
(***************************************************************************)
HighlightTracked ==
  highlighted = IF IsNull(highlightedElement) THEN {} ELSE {Get(highlightedElement)}

HighlightExpired ==
  sinceScroll > HighlightDelay => highlighted = {} /\ IsNull(highlightedElement)

C19_OneTrackedHighlight == HighlightTracked /\ HighlightExpired

\* the timeout of an earlier call fired after a later call succeeded, and a
\* refresh cycle has run
C19_Witness ==
  /\ ret.op = "highlight"
  /\ sinceScroll < HighlightDelay
  /\ highlighted = {}
  /\ burstCycles > 0

(***************************************************************************)
(* C20.  The restoration of the visibility at startup does not race with   *)
(* toggles: once the storage read has completed, a flag in storage equals  *)
(* isVisible, and getStatus reports the visibility the last toggle         *)
(* produced (the value the toggle wrote to storage).  The callback of the  *)
(* read applies hide() to the flag it read, whatever toggles ran since.    *)
(***************************************************************************)
ReadCompleted == pc = "running" /\ IsNull(storageRead)

C20_RestoreDoesNotRace ==
  (ReadCompleted /\ ~IsNull(stored)) =>
    /\ stored = Some(isVisible)
    /\ (ret.op = "popupGetStatus" /\ ~IsNull(ret.value)) =>
         Get(ret.value).sidebarVisible = Get(stored)

(***************************************************************************)
(* C22.  The visibility indicators agree: on a constructed sidebar,        *)
(* isVisible is true exactly when the element lacks the collapsed class    *)
(* and exactly when the toggle icon shows the collapse glyph ("-") rather  *)
(* than the expand glyph ("+").  hide() and show() set the class and leave *)
(* the icon as it is.                                                      *)
(***************************************************************************)
C22_IndicatorsAgree ==
  ~IsNull(sidebarElement) =>
    /\ isVisible <=> ~Get(sidebarElement).collapsed
    /\ isVisible <=> Get(sidebarElement).toggleIcon = "-"

(***************************************************************************)
(* C21.  The refresh gate closes after an extraction: in the state right   *)
(* after an extract and render cycle (the start of the script, a debounce  *)
(* callback) shouldRefresh returns false, and the observer callback that   *)
(* the render of the cycle caused has scheduled no further refresh.  The   *)
(* code compares the count of the primary selector with the count of the   *)
(* cached records, which leaves out the elements without text.             *)
(***************************************************************************)
AfterCycle == pc = "running" /\ ret.op \in {"scriptStart", "debounce"}

C21_GateClosesAfterCycle ==
  AfterCycle =>
    /\ ~shouldRefreshResult(dom, currentPlatform, messages, timeDiff)
    /\ ~DebouncePending(World)

====
